---------------------------- MODULE Spec2Model ----------------------------
(***************************************************************************)
(* Shopify store insights fetcher (src/main.py).                           *)
(*                                                                         *)
(* The module models, each as a state machine over its own variables:      *)
(*   - fetch_product_catalog   (the paginated listing loop)                *)
(*   - extract_hero_products   (homepage link / catalog matching)          *)
(*   - extract_brand_name      (the four-step fallback chain)              *)
(*   - extract_faqs            (structural selectors, regex fallback)      *)
(*   - fetch_policy_content    (candidate paths tried in order)            *)
(*   - fetch_store_insights and the POST /fetch-insights endpoint          *)
(*   - DatabaseOperations.save_brand_insights over a transactional store   *)
(*   - extract_brand_context   (about sections, meta description)          *)
(*   - extract_important_links (anchor text classified by keywords)        *)
(*   - extract_social_handles  (anchors filtered by platform domain)       *)
(*                                                                         *)
(* Text is a sequence of one-character strings, so that the string         *)
(* operations of the source (split, strip, lower, replace, slicing) are    *)
(* computed and not assumed.                                               *)
(***************************************************************************)
EXTENDS Integers, Sequences, FiniteSets, TLC

VARIABLES
    \* fetch_product_catalog
    cpc,            \* "idle" | "loop" | "done" | "raised"
    cFull,          \* listing endpoint: number of full pages (N)
    cLast,          \* listing endpoint: size of the page after them (K)
    cFailAt,        \* page whose request fails in transport (0: none)
    cBadAt,         \* page holding an item that cannot be normalised (0: none)
    page,           \* local `page`
    products,       \* local `products`
    requested,      \* pages requested so far, in order
    \* extract_hero_products
    hpc,            \* "idle" | "links" | "match" | "done"
    anchors,        \* hrefs of the homepage anchors, in document order
    all_products,   \* the catalog: records [id, title]
    product_handles,\* local set `product_handles`
    hero_products,  \* local `hero_products`
    \* extract_brand_name
    bpc,            \* "idle" | "meta" | "title" | "logo" | "domain" | "return" | "done"
    soup,           \* the parsed homepage, as far as the chain reads it
    netloc,         \* urlparse(url).netloc
    brand_name,     \* local `brand_name` (None and '' are both <<>>)
    consulted,      \* the steps of the chain evaluated so far, in order
    brand_result,   \* the value returned
    \* extract_faqs
    fpc,            \* "idle" | "select" | "fallback" | "matches" | "return" | "done"
    selector,       \* index into faq_selectors of the selector being scanned
    visited,        \* number of selected elements visited so far
    faqs,           \* local `faqs`
    matches,        \* matches[:10] of the regex fallback
    mi,             \* index of the next match to handle
    structural,     \* number of FAQs the structural strategy accepted
    ranFallback,    \* whether lines 315-323 were executed
    faq_result,     \* the value returned
    \* fetch_policy_content
    ppc,            \* "idle" | "loop" | "done"
    policy_type,    \* argument `policy_type`
    pathIdx,        \* index into `paths` of the path tried next
    served,         \* what each fetch so far was answered with, in order
    fetched,        \* the paths fetched so far, in order
    policy_result,  \* the value returned: [found, text]
    \* the store behind save_brand_insights
    rows,           \* committed brand_insights rows
    prodRows,       \* committed products rows
    nextId,         \* next brand_insights.id
    nextPk,         \* next products.id
    commits,        \* the runs that committed, in commit order
    \* the POST /fetch-insights endpoint, per run
    spc,            \* "idle" | "query" | "write" | "commit" | "done" | "failed"
    insights,       \* the aggregate fetch_store_insights returned
    existing_brand, \* id of the row the query found, 0 for None
    brand,          \* id of the row being written (brand.id)
    pending,        \* the run's uncommitted writes: [inserted, deleted]
    after,          \* the runs that had committed when this run queried
    faulted,        \* whether the database failed under this run
    response,       \* "pending" | "ok" | "err401" | "err500"
    \* fetch_store_insights (run 1)
    opc,            \* position in fetch_store_insights
    home,           \* whether the homepage can be fetched: "ok" | "fail"
    behaviour,      \* what each facet extractor does: "ok" | "empty" | "raise"
    facet,          \* the facet values held so far: "unset" | "value" | "default"
    calls,          \* the functions called so far, in order
    outcome,        \* "pending" | "ok" | "err401" | "err500"
    \* extract_brand_context
    xpc,            \* "idle" | "about" | "meta" | "done"
    about_sections, \* what select_one returned for the selectors tried so far
    meta_desc,      \* the description meta tag line 385 found
    context_result, \* the value returned
    \* extract_important_links
    lpc,            \* "idle" | "loop" | "done"
    links,          \* the anchors handled so far, in document order
    important_links,\* local `important_links`
    \* extract_social_handles
    shpc,           \* "idle" | "loop" | "done"
    page_anchors,   \* hrefs of the anchors reached so far, in document order
    social_handles  \* local `social_handles`

catVars == <<cpc, cFull, cLast, cFailAt, cBadAt, page, products, requested>>

heroVars == <<hpc, anchors, all_products, product_handles, hero_products>>

brandVars == <<bpc, soup, netloc, brand_name, consulted, brand_result>>

faqVars == <<fpc, selector, visited, faqs, matches, mi, structural, ranFallback, faq_result>>

polVars == <<ppc, policy_type, pathIdx, served, fetched, policy_result>>

storeVars == <<rows, prodRows, nextId, nextPk, commits>>

runVars == <<spc, insights, existing_brand, brand, pending, after, faulted, response>>

orchVars == <<opc, home, behaviour, facet, calls, outcome>>

ctxVars == <<xpc, about_sections, meta_desc, context_result>>

linkVars == <<lpc, links, important_links>>

socVars == <<shpc, page_anchors, social_handles>>

\* the extractors that read the homepage only
docVars == <<ctxVars, linkVars, socVars>>

\* the components that are pure functions of their arguments
funVars == <<catVars, heroVars, brandVars, faqVars, polVars, docVars>>

\* the endpoint with its store
appVars == <<storeVars, runVars, orchVars>>

vars == <<funVars, appVars>>

---------------------------------------------------------------------------
(* Generic helpers on sequences                                            *)

Min(a, b) == IF a <= b THEN a ELSE b

\* s[:n]
Take(s, n) == SubSeq(s, 1, Min(n, Len(s)))

\* s[n:]  (0-based n as in the source)
Drop(s, n) == SubSeq(s, n + 1, Len(s))

Range(s) == {s[i] : i \in 1..Len(s)}

---------------------------------------------------------------------------
(* Text: sequences of one-character strings                                *)

Upper == <<"A", "B", "C", "D", "E", "H", "S", "W">>
Lower == <<"a", "b", "c", "d", "e", "h", "s", "w">>

\* str.lower() on one character
LowerChar(c) ==
    IF \E i \in 1..Len(Upper) : Upper[i] = c
    THEN Lower[CHOOSE i \in 1..Len(Upper) : Upper[i] = c]
    ELSE c

\* str.upper() on one character
UpperChar(c) ==
    IF \E i \in 1..Len(Lower) : Lower[i] = c
    THEN Upper[CHOOSE i \in 1..Len(Lower) : Lower[i] = c]
    ELSE c

\* s.lower()
ToLower(s) == [i \in 1..Len(s) |-> LowerChar(s[i])]

\* s.capitalize(): first character upper-cased, the rest lower-cased
Capitalize(s) == [i \in 1..Len(s) |-> IF i = 1 THEN UpperChar(s[i]) ELSE LowerChar(s[i])]

\* s.replace(a, b) for single characters a, b
ReplaceChar(s, a, b) == [i \in 1..Len(s) |-> IF s[i] = a THEN b ELSE s[i]]

\* sub occurs in s at 0-based offset i
OccursAt(sub, s, i) ==
    /\ i + Len(sub) <= Len(s)
    /\ SubSeq(s, i + 1, i + Len(sub)) = sub

\* `sub in s`
Contains(s, sub) == \E i \in 0..Len(s) : OccursAt(sub, s, i)

\* s.find(sub): 0-based offset of the first occurrence (only used when it occurs)
Find(s, sub) == CHOOSE i \in 0..Len(s) :
    OccursAt(sub, s, i) /\ \A j \in 0..(i - 1) : ~OccursAt(sub, s, j)

\* s.split(sep)[0]
SplitFirst(s, sep) == IF Contains(s, sep) THEN Take(s, Find(s, sep)) ELSE s

\* s.split(sep)[-1]: str.split scans left to right over non-overlapping
\* occurrences of sep
RECURSIVE SplitLast(_, _)
SplitLast(s, sep) ==
    IF Contains(s, sep) THEN SplitLast(Drop(s, Find(s, sep) + Len(sep)), sep) ELSE s

\* s.replace(sub, ''): every non-overlapping occurrence removed, left to right
RECURSIVE RemoveAll(_, _)
RemoveAll(s, sub) ==
    IF Contains(s, sub)
    THEN Take(s, Find(s, sub)) \o RemoveAll(Drop(s, Find(s, sub) + Len(sub)), sub)
    ELSE s

Whitespace == {" ", "\n", "\t"}

RECURSIVE LStrip(_)
LStrip(s) == IF s # <<>> /\ Head(s) \in Whitespace THEN LStrip(Tail(s)) ELSE s

RECURSIVE RStrip(_)
RStrip(s) ==
    IF s # <<>> /\ s[Len(s)] \in Whitespace THEN RStrip(SubSeq(s, 1, Len(s) - 1)) ELSE s

\* s.strip()
Strip(s) == RStrip(LStrip(s))

---------------------------------------------------------------------------
(* fetch_product_catalog, src/main.py 199-226                              *)

\* limit=250 of the request, and the short-page test of line 222
PageLimit == 250

\* bound: the largest number of full pages the listing endpoint serves
MaxPages == 2

\* Raw items are numbered 1, 2, ... across the pages; an item that cannot
\* be normalised (for instance "variants": [] makes line 216 index an empty
\* list) is written as the negated number.
PageCount(p) ==
    IF p <= cFull THEN PageLimit ELSE IF p = cFull + 1 THEN cLast ELSE 0

ListingPage(p) ==
    [i \in 1..PageCount(p) |->
        IF cBadAt = p /\ i = 1 THEN 0 - ((p - 1) * PageLimit + i)
        ELSE (p - 1) * PageLimit + i]

\* fetch_json: the decoded mapping, or the empty mapping on a transport or
\* decode error.  The mapping is a function from keys to values.
fetch_json(p) ==
    IF cFailAt = p THEN [k \in {} |-> <<>>]
    ELSE [k \in {"products"} |-> ListingPage(p)]

\* data.get('products'): None and [] are both falsy, both written <<>>
GetProducts(data) == IF "products" \in DOMAIN data THEN data["products"] ELSE <<>>

\* ProductModel(...) of lines 212-219 raises on a malformed item
Normalisable(item) == item > 0

\* The mutant of LastPage: an off-by-one in the short-page test
LastPageOffByOne(n) == n <= PageLimit

\* line 222: len(data['products']) < 250
LastPage(n) == n < PageLimit

CatalogInit ==
    /\ cpc = "loop"
    /\ cFull \in 0..MaxPages
    /\ cLast \in 0..(PageLimit - 1)
    /\ cFailAt \in 0..(MaxPages + 1)
    /\ cBadAt \in 0..(MaxPages + 1)
    /\ page = 1
    /\ products = <<>>
    /\ requested = <<>>

CatalogIdle ==
    /\ cpc = "idle"
    /\ cFull = 0
    /\ cLast = 0
    /\ cFailAt = 0
    /\ cBadAt = 0
    /\ page = 1
    /\ products = <<>>
    /\ requested = <<>>

\* One iteration of `while True`, lines 204-224
CatalogPage ==
    /\ cpc = "loop"
    /\ LET data == fetch_json(page)
           items == GetProducts(data)
       IN  /\ requested' = Append(requested, page)
           /\ IF items = <<>>
              THEN /\ cpc' = "done"
                   /\ UNCHANGED <<page, products>>
              ELSE IF \E i \in 1..Len(items) : ~Normalisable(items[i])
              THEN /\ cpc' = "raised"
                   /\ UNCHANGED <<page, products>>
              ELSE /\ products' = products \o items
                   /\ IF LastPage(Len(items))
                      THEN cpc' = "done" /\ page' = page
                      ELSE cpc' = "loop" /\ page' = page + 1
    /\ UNCHANGED <<cFull, cLast, cFailAt, cBadAt>>

\* The listing endpoint answers every request with well-formed items
CatalogServed == cFailAt = 0 /\ cBadAt = 0

\* C1: for N full pages of 250 followed by a page of K < 250 products the
\* loop ends after exactly N+1 requests, for pages 1..N+1 in increasing
\* order, and returns the 250*N+K products in listing order; until then
\* the next request is always possible and no page is requested twice.
C1_PaginationTerminates ==
    CatalogServed =>
        /\ Len(requested) <= cFull + 1
        /\ requested = [i \in 1..Len(requested) |-> i]
        /\ cpc \in {"loop", "done"}
        /\ cpc = "loop" => ENABLED CatalogPage
        /\ cpc = "done" =>
              /\ Len(products) = PageLimit * cFull + cLast
              /\ products = [i \in 1..(PageLimit * cFull + cLast) |-> i]
              /\ requested = [i \in 1..(cFull + 1) |-> i]

C1_Witness ==
    /\ CatalogServed
    /\ cpc = "done"
    /\ cFull = MaxPages
    /\ cLast = 7
    /\ Len(requested) = MaxPages + 1

---------------------------------------------------------------------------
(* extract_hero_products, src/main.py 228-249                              *)

\* product_links[:10]
LinkLimit == 10

\* line 246: len(hero_products) >= 6
HeroCap == 6

\* bound: the longest catalog handed to the matcher
MaxCatalog == 7

PRODUCTS == <<"/", "p", "r", "o", "d", "u", "c", "t", "s", "/">>

HrefAB == PRODUCTS \o <<"a", "-", "b">>
HrefABQuery == PRODUCTS \o <<"A", "-", "B", "?", "v">>
HrefCD == <<"/", "c">> \o PRODUCTS \o <<"c", "d">>
HrefBare == PRODUCTS
HrefCart == <<"/", "c", "a", "r", "t">>
HrefOther == PRODUCTS \o <<"z", "z">>

Filler(n) == [i \in 1..n |-> HrefOther]

AnchorLists ==
    { <<>>,
      <<HrefCart>>,
      <<HrefAB>>,
      <<HrefABQuery, HrefCart>>,
      <<HrefCD, HrefAB>>,
      <<HrefBare>>,
      Filler(LinkLimit) \o <<HrefAB>>,
      Filler(LinkLimit - 1) \o <<HrefAB>>,
      <<HrefCart>> \o Filler(LinkLimit - 1) \o <<HrefAB, HrefCD>> }

TitleAB == <<"A", " ", "b">>
TitleCD == <<"C", "d", " ", "e">>
NoTitle == <<>>
Titles == {TitleAB, TitleCD, NoTitle}

TitleLists == UNION {[1..n -> Titles] : n \in 0..MaxCatalog}

\* soup.find_all('a', href=re.compile(r'/products/'))
ProductLinks(as) == SelectSeq(as, LAMBDA h : Contains(h, PRODUCTS))

\* line 239: href.split('/products/')[-1].split('?')[0]
Handle(href) == SplitFirst(SplitLast(href, PRODUCTS), <<"?">>)

\* lines 236-240
CollectHandles(as) ==
    {Handle(h) : h \in {x \in Range(Take(ProductLinks(as), LinkLimit)) : Contains(x, PRODUCTS)}}

\* line 244: product.title and any(handle.lower() in
\* product.title.lower().replace(' ', '-') for handle in product_handles)
HeroMatch(product, handles) ==
    /\ product.title # <<>>
    /\ \E h \in handles :
          Contains(ReplaceChar(ToLower(product.title), " ", "-"), ToLower(h))

\* The mutant of HeroFull: the cap tested one element late
HeroFullLate(hero) == Len(hero) > HeroCap

\* line 246
HeroFull(hero) == Len(hero) >= HeroCap

\* lines 243-247: the loop over all_products from position i on
RECURSIVE HeroScan(_, _, _, _)
HeroScan(catalog, handles, i, hero) ==
    IF i > Len(catalog) THEN hero
    ELSE IF HeroMatch(catalog[i], handles)
         THEN IF HeroFull(Append(hero, catalog[i]))
              THEN Append(hero, catalog[i])
              ELSE HeroScan(catalog, handles, i + 1, Append(hero, catalog[i]))
         ELSE HeroScan(catalog, handles, i + 1, hero)

HeroInit ==
    /\ hpc = "links"
    /\ anchors \in AnchorLists
    /\ \E ts \in TitleLists :
          all_products = [i \in 1..Len(ts) |-> [id |-> i, title |-> ts[i]]]
    /\ product_handles = {}
    /\ hero_products = <<>>

HeroIdle ==
    /\ hpc = "idle"
    /\ anchors = <<>>
    /\ all_products = <<>>
    /\ product_handles = {}
    /\ hero_products = <<>>

\* lines 233-240
HeroLinks ==
    /\ hpc = "links"
    /\ product_handles' = CollectHandles(anchors)
    /\ hpc' = "match"
    /\ UNCHANGED <<anchors, all_products, hero_products>>

\* lines 243-249
HeroProducts ==
    /\ hpc = "match"
    /\ hero_products' = HeroScan(all_products, product_handles, 1, <<>>)
    /\ hpc' = "done"
    /\ UNCHANGED <<anchors, all_products, product_handles>>

\* The catalog products a homepage link matches, in catalog order
MatchingProducts ==
    SelectSeq(all_products, LAMBDA p : HeroMatch(p, CollectHandles(anchors)))

\* C6: the hero products are at most 6, each is a product of the input
\* catalog, and they are the first up-to-6 matching products in catalog
\* order.
C6_HeroCap ==
    hpc = "done" =>
        /\ Len(hero_products) <= 6
        /\ \A i \in 1..Len(hero_products) : hero_products[i] \in Range(all_products)
        /\ \A i, j \in 1..Len(hero_products) :
              i < j => hero_products[i].id < hero_products[j].id
        /\ hero_products = Take(MatchingProducts, 6)

C6_Witness ==
    /\ hpc = "done"
    /\ Len(MatchingProducts) > 6
    /\ Len(hero_products) = 6

---------------------------------------------------------------------------
(* extract_brand_name, src/main.py 170-197                                 *)

UnknownBrand == <<"U", "n", "k", "n", "o", "w", "n", " ", "B", "r", "a", "n", "d">>

WWW == <<"w", "w", "w", ".">>

\* <meta property="og:site_name">: has |-> the tag exists; content |-> its
\* content attribute (missing and empty are both <<>>)
Metas ==
    { [has |-> FALSE, content |-> <<>>],
      [has |-> TRUE, content |-> <<>>],
      [has |-> TRUE, content |-> <<" ">>],
      [has |-> TRUE, content |-> <<"S", "h", "o", "p">>] }

\* <title>: has |-> the tag exists; text |-> get_text()
TitleTags ==
    { [has |-> FALSE, text |-> <<>>],
      [has |-> TRUE, text |-> <<"A", "c", "m", "e", " ", "|", " ", "H">>],
      [has |-> TRUE, text |-> <<" ", "A", "c", " ", "-", " ", "b", "|", "c">>],
      [has |-> TRUE, text |-> <<"A", "|", "b", "-", "c">>],
      [has |-> TRUE, text |-> <<" ", "|", " ", "H">>],
      [has |-> TRUE, text |-> <<"-", "H">>],
      [has |-> TRUE, text |-> <<" ", "\n">>],
      [has |-> TRUE, text |-> <<"A", "c", "m", "e">>] }

\* <img class=...logo...>: has |-> the tag exists; alt |-> get('alt', '')
Logos ==
    { [has |-> FALSE, alt |-> <<>>],
      [has |-> TRUE, alt |-> <<>>],
      [has |-> TRUE, alt |-> <<"L", "o", "g", "o">>] }

Netlocs ==
    { <<"w", "w", "w", ".", "a", "C", "m", "e", ".", "c", "o", "m">>,
      <<"s", "h", "o", "p", ".", "d", "e">>,
      <<"s", "w", "w", "w", ".", "d", "e">>,
      <<"w", "w", "w", ".">>,
      <<>> }

\* The mutant of TitlePrefix: only the '|' delimiter is honoured
TitlePrefixBarOnly(text) == Strip(SplitFirst(text, <<"|">>))

\* line 184: title.get_text().split('|')[0].split('-')[0].strip()
TitlePrefix(text) == Strip(SplitFirst(SplitFirst(text, <<"|">>), <<"-">>))

\* line 195: domain.replace('www.', '').split('.')[0].capitalize()
DomainLabel(domain) == Capitalize(SplitFirst(RemoveAll(domain, WWW), <<".">>))

BrandInit ==
    /\ bpc = "meta"
    /\ soup \in [meta : Metas, title : TitleTags, logo : Logos]
    /\ netloc \in Netlocs
    /\ brand_name = <<>>
    /\ consulted = <<>>
    /\ brand_result = <<>>

BrandIdle ==
    /\ bpc = "idle"
    /\ soup = [meta |-> [has |-> FALSE, content |-> <<>>],
               title |-> [has |-> FALSE, text |-> <<>>],
               logo |-> [has |-> FALSE, alt |-> <<>>]]
    /\ netloc = <<>>
    /\ brand_name = <<>>
    /\ consulted = <<>>
    /\ brand_result = <<>>

\* lines 173-178
BrandMeta ==
    /\ bpc = "meta"
    /\ consulted' = Append(consulted, "meta")
    /\ brand_name' = IF soup.meta.has THEN soup.meta.content ELSE <<>>
    /\ bpc' = "title"
    /\ UNCHANGED <<soup, netloc, brand_result>>

\* lines 181-184
BrandTitle ==
    /\ bpc = "title"
    /\ IF brand_name = <<>>
       THEN /\ consulted' = Append(consulted, "title")
            /\ brand_name' = IF soup.title.has THEN TitlePrefix(soup.title.text)
                              ELSE brand_name
       ELSE UNCHANGED <<consulted, brand_name>>
    /\ bpc' = "logo"
    /\ UNCHANGED <<soup, netloc, brand_result>>

\* lines 187-190
BrandLogo ==
    /\ bpc = "logo"
    /\ IF brand_name = <<>>
       THEN /\ consulted' = Append(consulted, "logo")
            /\ brand_name' = IF soup.logo.has THEN soup.logo.alt ELSE brand_name
       ELSE UNCHANGED <<consulted, brand_name>>
    /\ bpc' = "domain"
    /\ UNCHANGED <<soup, netloc, brand_result>>

\* lines 193-195
BrandDomain ==
    /\ bpc = "domain"
    /\ IF brand_name = <<>>
       THEN /\ consulted' = Append(consulted, "domain")
            /\ brand_name' = DomainLabel(netloc)
       ELSE UNCHANGED <<consulted, brand_name>>
    /\ bpc' = "return"
    /\ UNCHANGED <<soup, netloc, brand_result>>

\* line 197
BrandReturn ==
    /\ bpc = "return"
    /\ brand_result' = IF brand_name # <<>> THEN brand_name ELSE UnknownBrand
    /\ bpc' = "done"
    /\ UNCHANGED <<soup, netloc, brand_name, consulted>>

\* What each step of the chain yields on the input, stated from the claim:
\* the text before the first '|' or '-' of the title, trimmed; the first
\* label of the domain without 'www.', capitalized.
Delimiters(text) == {i \in 1..Len(text) : text[i] \in {"|", "-"}}

FirstDelimiter(text) ==
    CHOOSE i \in Delimiters(text) : \A j \in Delimiters(text) : i <= j

Dots(text) == {i \in 1..Len(text) : text[i] = "."}

FirstDot(text) == CHOOSE i \in Dots(text) : \A j \in Dots(text) : i <= j

ChainYield(step) ==
    CASE step = 1 -> IF soup.meta.has THEN soup.meta.content ELSE <<>>
      [] step = 2 ->
            IF ~soup.title.has THEN <<>>
            ELSE IF Delimiters(soup.title.text) = {} THEN Strip(soup.title.text)
            ELSE Strip(SubSeq(soup.title.text, 1, FirstDelimiter(soup.title.text) - 1))
      [] step = 3 -> IF soup.logo.has THEN soup.logo.alt ELSE <<>>
      [] step = 4 ->
            LET d == RemoveAll(netloc, WWW)
                label == IF Dots(d) = {} THEN d ELSE SubSeq(d, 1, FirstDot(d) - 1)
            IN  [i \in 1..Len(label) |->
                    IF i = 1 THEN UpperChar(label[i]) ELSE LowerChar(label[i])]

ChainSteps == <<"meta", "title", "logo", "domain">>

Yielding == {k \in 1..4 : ChainYield(k) # <<>>}

\* C7: the brand name is what the first yielding step of the chain yields,
\* no later step is evaluated, and it is "Unknown Brand" when no step
\* yields; the function always returns.
C7_BrandNameChain ==
    /\ bpc # "done" =>
          ENABLED (BrandMeta \/ BrandTitle \/ BrandLogo \/ BrandDomain \/ BrandReturn)
    /\ bpc = "done" =>
          IF Yielding = {}
          THEN brand_result = UnknownBrand /\ consulted = ChainSteps
          ELSE LET first == CHOOSE k \in Yielding : \A j \in Yielding : k <= j
               IN  /\ brand_result = ChainYield(first)
                   /\ brand_result # <<>>
                   /\ consulted = SubSeq(ChainSteps, 1, first)

C7_Witness ==
    /\ bpc = "done"
    /\ ~soup.meta.has
    /\ soup.title.has
    /\ soup.title.text = <<" ", "A", "c", " ", "-", " ", "b", "|", "c">>
    /\ brand_result = <<"A", "c">>
    /\ consulted = <<"meta", "title">>

---------------------------------------------------------------------------
(* extract_faqs, src/main.py 290-325                                       *)

\* faq_selectors, lines 295-298
FaqSelectors == <<".faq-item", ".faq", ".accordion-item", ".question-answer", ".qa-item">>

\* line 310: len(question) > 10
QuestionMinLen == 10

\* line 319: matches[:10]
MatchLimit == 10

\* line 321: answer.strip()[:300]
AnswerLimit == 300

\* line 325: faqs[:15]
FaqCap == 15

\* bound: the number of selected elements visited over all selectors
MaxFaqElements == 17

\* bound: the number of matches the regex finds in the page text
MaxMatches == 11

Q11 == <<"H", "o", "w", " ", "m", "u", "c", "h", " ", "x", "?">>
Q10 == <<"H", "o", "w", " ", "m", "u", "c", "h", "?", "?">>
QWhy == <<"W", "h", "y", "?">>
AYes == <<"Y", "e", "s">>
ABecause == <<"B", "e", "c">>
ALong == [i \in 1..(AnswerLimit + 1) |-> "a"]
Padded(s) == <<" ">> \o s \o <<" ", "\n">>

\* An element matched by a selector: q |-> the heading found by line 303
\* (has, text), a |-> the paragraph found by line 304 (has, text)
FaqElements ==
    { [q |-> [has |-> TRUE, text |-> Q11], a |-> [has |-> TRUE, text |-> AYes]],
      [q |-> [has |-> TRUE, text |-> Padded(Q11)], a |-> [has |-> TRUE, text |-> Padded(AYes)]],
      [q |-> [has |-> TRUE, text |-> Padded(Q10)], a |-> [has |-> TRUE, text |-> AYes]],
      [q |-> [has |-> TRUE, text |-> Q11], a |-> [has |-> TRUE, text |-> <<" ">>]],
      [q |-> [has |-> TRUE, text |-> Q11], a |-> [has |-> FALSE, text |-> <<>>]],
      [q |-> [has |-> FALSE, text |-> <<>>], a |-> [has |-> TRUE, text |-> AYes]],
      [q |-> [has |-> TRUE, text |-> <<" ", " ">>], a |-> [has |-> TRUE, text |-> AYes]] }

\* A match of q_pattern: the two groups.  Group 1 is [^?]*\? and so ends
\* with '?'; group 2 is [^Q]*? and may be empty or blank.
FaqMatches ==
    << [q |-> Padded(QWhy), a |-> Padded(ABecause)],
       [q |-> Q11, a |-> ALong],
       [q |-> QWhy, a |-> <<" ", "\n">>],
       [q |-> <<" ", "?">>, a |-> AYes],
       [q |-> Q11, a |-> <<>>] >>

\* The lists of matches considered: n matches cycling through FaqMatches
\* from offset o
MatchList(n, o) == [i \in 1..n |-> FaqMatches[((i - 1 + o) % Len(FaqMatches)) + 1]]

MatchLists == {MatchList(n, o) : n \in 0..MaxMatches, o \in 0..(Len(FaqMatches) - 1)}

\* get_text(strip=True) of an element with one text node
StrippedText(t) == Strip(t)

\* lines 306-310: the pair is accepted
AcceptStructural(e) ==
    /\ e.q.has
    /\ e.a.has
    /\ StrippedText(e.q.text) # <<>>
    /\ StrippedText(e.a.text) # <<>>
    /\ Len(StrippedText(e.q.text)) > QuestionMinLen

\* line 311
StructuralFaq(e) == [question |-> StrippedText(e.q.text), answer |-> StrippedText(e.a.text)]

\* lines 320-321
FallbackFaq(m) == [question |-> Strip(m.q), answer |-> Take(Strip(m.a), AnswerLimit)]

\* line 322
AcceptFallback(m) == FallbackFaq(m).question # <<>> /\ FallbackFaq(m).answer # <<>>

\* The mutant of UseFallback: the regex strategy runs unconditionally
UseFallbackAlways(fs) == TRUE

\* line 314: if not faqs
UseFallback(fs) == fs = <<>>

FaqInit ==
    /\ fpc = "select"
    /\ selector = 1
    /\ visited = 0
    /\ faqs = <<>>
    /\ matches = <<>>
    /\ mi = 1
    /\ structural = 0
    /\ ranFallback = FALSE
    /\ faq_result = <<>>

FaqIdle ==
    /\ fpc = "idle"
    /\ selector = 1
    /\ visited = 0
    /\ faqs = <<>>
    /\ matches = <<>>
    /\ mi = 1
    /\ structural = 0
    /\ ranFallback = FALSE
    /\ faq_result = <<>>

\* lines 302-311: the next element soup.select(selector) returned
FaqElement ==
    /\ fpc = "select"
    /\ visited < MaxFaqElements
    /\ \E e \in FaqElements :
          IF AcceptStructural(e)
          THEN /\ faqs' = Append(faqs, StructuralFaq(e))
               /\ structural' = structural + 1
          ELSE UNCHANGED <<faqs, structural>>
    /\ visited' = visited + 1
    /\ UNCHANGED <<fpc, selector, matches, mi, ranFallback, faq_result>>

\* line 300: the elements of this selector are exhausted
FaqNextSelector ==
    /\ fpc = "select"
    /\ IF selector < Len(FaqSelectors)
       THEN selector' = selector + 1 /\ fpc' = fpc
       ELSE selector' = selector /\ fpc' = "fallback"
    /\ UNCHANGED <<visited, faqs, matches, mi, structural, ranFallback, faq_result>>

\* lines 314-317
FaqFallback ==
    /\ fpc = "fallback"
    /\ IF UseFallback(faqs)
       THEN /\ \E ms \in MatchLists : matches' = Take(ms, MatchLimit)
            /\ ranFallback' = TRUE
            /\ fpc' = "matches"
       ELSE /\ fpc' = "return"
            /\ UNCHANGED <<matches, ranFallback>>
    /\ UNCHANGED <<selector, visited, faqs, mi, structural, faq_result>>

\* lines 319-323: one iteration
FaqMatch ==
    /\ fpc = "matches"
    /\ mi <= Len(matches)
    /\ faqs' = IF AcceptFallback(matches[mi])
               THEN Append(faqs, FallbackFaq(matches[mi]))
               ELSE faqs
    /\ mi' = mi + 1
    /\ UNCHANGED <<fpc, selector, visited, matches, structural, ranFallback, faq_result>>

FaqMatchesDone ==
    /\ fpc = "matches"
    /\ mi > Len(matches)
    /\ fpc' = "return"
    /\ UNCHANGED <<selector, visited, faqs, matches, mi, structural, ranFallback, faq_result>>

\* line 325
FaqReturn ==
    /\ fpc = "return"
    /\ faq_result' = Take(faqs, FaqCap)
    /\ fpc' = "done"
    /\ UNCHANGED <<selector, visited, faqs, matches, mi, structural, ranFallback>>

\* The FAQs the structural strategy can produce
StructuralFaqs == {StructuralFaq(e) : e \in {x \in FaqElements : AcceptStructural(x)}}

\* C8: the regex fallback runs exactly when the structural strategy
\* accepted nothing, so the result never holds FAQs of both strategies;
\* a fallback result has only non-empty questions and answers; the result
\* has at most 15 entries.
C8_FaqFallback ==
    fpc = "done" =>
        /\ ranFallback <=> structural = 0
        /\ Len(faq_result) <= 15
        /\ structural > 0 =>
              /\ \A i \in 1..Len(faq_result) : faq_result[i] \in StructuralFaqs
              /\ Len(faq_result) = Min(structural, 15)
        /\ ranFallback =>
              /\ \A i \in 1..Len(faq_result) :
                    /\ faq_result[i].question # <<>>
                    /\ faq_result[i].answer # <<>>
                    /\ faq_result[i] \notin StructuralFaqs
              /\ Len(faq_result) <= Len(matches)

C8_Witness ==
    /\ fpc = "done"
    /\ ranFallback
    /\ visited > 0
    /\ Len(faq_result) >= 2

\* C10: every FAQ returned, by either strategy, has a question of more
\* than 10 characters after trimming.
C10_QuestionLength ==
    fpc = "done" =>
        \A i \in 1..Len(faq_result) : Len(Strip(faq_result[i].question)) > 10

---------------------------------------------------------------------------
(* fetch_policy_content, src/main.py 251-288                               *)

\* common_paths, lines 253-257
PrivacyPaths == <<"/pages/privacy-policy", "/privacy-policy", "/privacy", "/pages/privacy">>

RefundPaths ==
    <<"/pages/refund-policy", "/pages/return-policy", "/refund-policy", "/return-policy",
      "/pages/returns", "/returns", "/pages/refunds", "/refunds">>

\* line 259: common_paths.get(policy_type, [])
PolicyPaths(kind) ==
    IF kind = "privacy" THEN PrivacyPaths
    ELSE IF kind = "refund" THEN RefundPaths
    ELSE <<>>

\* content_selectors, lines 267-270
ContentSelectors ==
    <<".page-content", ".main-content", ".policy-content", "article", "main", ".content", "#content">>

\* line 276 and line 281: len(text) > 100
MinContentLen == 100

\* line 277 and line 282: text[:2000]
PolicyLimit == 2000

\* A text is known by where it stands in the page and by its length
NoText == [id |-> "none", len |-> 0]

\* select_one found nothing
Missing == [id |-> "missing", len |-> 0]

NoContainers == [i \in 1..Len(ContentSelectors) |-> Missing]

\* What a fetch can be answered with: a transport or status error
\* (fetch_page raises), markup whose handling raises, or a page with the
\* containers select_one finds (in the order of ContentSelectors) and the
\* text of the whole page
Responses ==
    { [kind |-> "error", containers |-> NoContainers, body |-> NoText],
      [kind |-> "broken", containers |-> NoContainers, body |-> NoText],
      [kind |-> "page", containers |-> NoContainers, body |-> [id |-> "short", len |-> 100]],
      [kind |-> "page",
       containers |-> [NoContainers EXCEPT ![1] = [id |-> "c1", len |-> 100],
                                           ![5] = [id |-> "c5", len |-> 2001],
                                           ![6] = [id |-> "c6", len |-> 500]],
       body |-> [id |-> "whole", len |-> 3000]],
      [kind |-> "page",
       containers |-> [NoContainers EXCEPT ![4] = [id |-> "c4", len |-> 50]],
       body |-> [id |-> "body", len |-> 101]],
      [kind |-> "page", containers |-> NoContainers, body |-> [id |-> "long", len |-> 2500]] }

\* text[:n]
Truncate(t, n) == [id |-> t.id, len |-> Min(t.len, n)]

\* The mutant of PolicyText: the text is returned whole
PolicyTextWhole(t) == t

\* lines 277 and 282: text[:2000]
PolicyText(t) == Truncate(t, PolicyLimit)

\* line 274 and line 276: the container exists and its text is long enough
Meaningful(t) == t # Missing /\ t.len > MinContentLen

\* lines 272-282 on a fetched page: the text returned, or NoText
PageContent(r) ==
    LET hits == {i \in 1..Len(ContentSelectors) : Meaningful(r.containers[i])}
    IN  IF hits # {}
        THEN PolicyText(r.containers[CHOOSE i \in hits : \A j \in hits : i <= j])
        ELSE IF r.body.len > MinContentLen THEN PolicyText(r.body)
        ELSE NoText

\* lines 262-286: what one pass of the loop body produces.  Any exception,
\* of the fetch or of the parsing, is caught at line 284.
PathContent(r) == IF r.kind = "page" THEN PageContent(r) ELSE NoText

PolicyInit ==
    /\ ppc = "loop"
    /\ policy_type \in {"privacy", "refund", "terms"}
    /\ pathIdx = 1
    /\ served = <<>>
    /\ fetched = <<>>
    /\ policy_result = [found |-> FALSE, text |-> NoText]

PolicyIdle ==
    /\ ppc = "idle"
    /\ policy_type = "privacy"
    /\ pathIdx = 1
    /\ served = <<>>
    /\ fetched = <<>>
    /\ policy_result = [found |-> FALSE, text |-> NoText]

\* lines 261-286: one pass of `for path in paths`
PolicyPath ==
    /\ ppc = "loop"
    /\ pathIdx <= Len(PolicyPaths(policy_type))
    /\ \E r \in Responses :
          /\ served' = Append(served, r)
          /\ fetched' = Append(fetched, PolicyPaths(policy_type)[pathIdx])
          /\ IF PathContent(r) # NoText
             THEN /\ policy_result' = [found |-> TRUE, text |-> PathContent(r)]
                  /\ ppc' = "done"
                  /\ pathIdx' = pathIdx
             ELSE /\ pathIdx' = pathIdx + 1
                  /\ UNCHANGED <<ppc, policy_result>>
    /\ UNCHANGED policy_type

\* line 288: the paths are exhausted
PolicyAbsent ==
    /\ ppc = "loop"
    /\ pathIdx > Len(PolicyPaths(policy_type))
    /\ policy_result' = [found |-> FALSE, text |-> NoText]
    /\ ppc' = "done"
    /\ UNCHANGED <<policy_type, pathIdx, served, fetched>>

\* A fetched path yields content: it was answered with a page in which a
\* container, or else the whole page, has more than 100 characters
YieldsContent(r) ==
    /\ r.kind = "page"
    /\ \/ \E i \in 1..7 : r.containers[i].id # "missing" /\ r.containers[i].len > 100
       \/ r.body.len > 100

\* The number of candidate paths of each kind, as the claim counts them
PathCount == IF policy_type = "privacy" THEN 4 ELSE IF policy_type = "refund" THEN 8 ELSE 0

\* C9: the candidate paths are fetched in list order, each at most once;
\* a failed fetch moves on to the next path and raises nothing; the
\* result is the content, of at most 2000 characters, of the first path
\* that yields content, after which no path is fetched; it is absent
\* exactly when every path failed or yielded nothing.
C9_PolicyPaths ==
    /\ ppc \in {"loop", "done"}
    /\ ppc = "loop" => ENABLED (PolicyPath \/ PolicyAbsent)
    /\ Len(fetched) = Len(served)
    /\ Len(fetched) <= PathCount
    /\ fetched = SubSeq(PolicyPaths(policy_type), 1, Len(fetched))
    /\ \A i, j \in 1..Len(fetched) : i # j => fetched[i] # fetched[j]
    /\ \A i \in 1..(Len(served) - 1) : ~YieldsContent(served[i])
    /\ ppc = "loop" => \A i \in 1..Len(served) : ~YieldsContent(served[i])
    /\ ppc = "done" =>
          IF \E i \in 1..Len(served) : YieldsContent(served[i])
          THEN /\ policy_result.found
               /\ YieldsContent(served[Len(served)])
               /\ policy_result.text.len <= 2000
               /\ LET r == served[Len(served)]
                      big == {i \in 1..7 : r.containers[i].id # "missing"
                                              /\ r.containers[i].len > 100}
                      src == IF big = {} THEN r.body
                             ELSE r.containers[CHOOSE i \in big : \A j \in big : i <= j]
                  IN  /\ policy_result.text.id = src.id
                      /\ policy_result.text.len = IF src.len > 2000 THEN 2000 ELSE src.len
          ELSE /\ ~policy_result.found
               /\ Len(served) = PathCount

C9_Witness ==
    /\ ppc = "done"
    /\ policy_type = "refund"
    /\ Len(fetched) = 3
    /\ served[1].kind = "error"
    /\ served[2].kind = "page"
    /\ policy_result.found
    /\ policy_result.text = [id |-> "c5", len |-> 2000]

---------------------------------------------------------------------------
(* The store: brand_insights and products, src/main.py 45-75, behind a     *)
(* SQLAlchemy session with autocommit and autoflush off (line 41).  A      *)
(* session's writes are invisible to the others until it commits; a write  *)
(* that meets another session's uncommitted write on the same row or       *)
(* unique key waits for that session to end.                               *)

Runs == {1, 2}

Urls == {"https://a.example", "https://b.example"}

FacetValues == {"x", "y"}

Catalogs == {<<>>, <<"p1">>, <<"p2", "p3">>}

\* BrandInsightsModel, lines 119-131 (competitors is always [])
Aggregate(url, v, catalog) ==
    [website_url |-> url,
     brand_name |-> v,
     product_catalog |-> catalog,
     hero_products |-> v,
     privacy_policy |-> v,
     return_refund_policy |-> v,
     faqs |-> v,
     social_handles |-> v,
     contact_details |-> v,
     brand_context |-> v,
     important_links |-> v]

NoInsights == Aggregate("", "unset", <<>>)

\* lines 528-539: BrandInsights(...)
NewRow(id, i) ==
    [id |-> id,
     website_url |-> i.website_url,
     brand_name |-> i.brand_name,
     hero_products |-> i.hero_products,
     privacy_policy |-> i.privacy_policy,
     return_refund_policy |-> i.return_refund_policy,
     faqs |-> i.faqs,
     social_handles |-> i.social_handles,
     contact_details |-> i.contact_details,
     brand_context |-> i.brand_context,
     important_links |-> i.important_links]

\* lines 511-520: the assignments to existing_brand
UpdatedRow(row, i) ==
    [id |-> row.id,
     website_url |-> row.website_url,
     brand_name |-> i.brand_name,
     hero_products |-> i.hero_products,
     privacy_policy |-> i.privacy_policy,
     return_refund_policy |-> i.return_refund_policy,
     faqs |-> i.faqs,
     social_handles |-> i.social_handles,
     contact_details |-> i.contact_details,
     brand_context |-> i.brand_context,
     important_links |-> i.important_links]

\* lines 544-554: Product(brand_id=brand.id, ...) for each catalog product
NewProducts(firstPk, brandId, catalog) ==
    {[pk |-> firstPk + k - 1, brand_id |-> brandId, product_id |-> catalog[k]] :
        k \in 1..Len(catalog)}

\* lines 505-507: query(BrandInsights).filter(website_url == ...).first()
FirstRow(url) ==
    IF \E row \in rows : row.website_url = url
    THEN (CHOOSE row \in rows : row.website_url = url).id
    ELSE 0

\* The mutant of ProductsOf: the old child rows are not selected
ProductsOfNone(brandId) == {}

\* line 523: query(Product).filter(Product.brand_id == existing_brand.id)
ProductsOf(brandId) == {p.pk : p \in {q \in prodRows : q.brand_id = brandId}}

NoPending == [inserted |-> FALSE, deleted |-> {}]

\* A store no run has written to
EmptyStore ==
    /\ rows = {}
    /\ prodRows = {}
    /\ nextId = 1
    /\ nextPk = 1

\* The store as one earlier committed run for the first URL left it
EarlierStore(catalog) ==
    /\ rows = {NewRow(1, Aggregate("https://a.example", "old", catalog))}
    /\ prodRows = NewProducts(1, 1, catalog)
    /\ nextId = 2
    /\ nextPk = Len(catalog) + 1

StoreInit ==
    /\ \/ EmptyStore
       \/ EarlierStore(<<>>)
       \/ EarlierStore(<<"p0">>)
    /\ commits = <<>>

RunsInit ==
    /\ spc = [r \in Runs |-> "idle"]
    /\ insights = [r \in Runs |-> NoInsights]
    /\ existing_brand = [r \in Runs |-> 0]
    /\ brand = [r \in Runs |-> 0]
    /\ pending = [r \in Runs |-> NoPending]
    /\ after = [r \in Runs |-> {}]
    /\ faulted = [r \in Runs |-> FALSE]
    /\ response = [r \in Runs |-> "pending"]

\* lines 559-562: except SQLAlchemyError: rollback, HTTPException(500)
Rollback(r) ==
    /\ pending' = [pending EXCEPT ![r] = NoPending]
    /\ response' = [response EXCEPT ![r] = "err500"]
    /\ spc' = [spc EXCEPT ![r] = "failed"]

\* lines 599-600 as seen from the store: fetch_store_insights returns an
\* aggregate, or raises and the endpoint ends without saving
EndpointFetch(r) ==
    /\ spc[r] = "idle"
    /\ \/ \E u \in Urls, v \in FacetValues, c \in Catalogs :
            /\ insights' = [insights EXCEPT ![r] = Aggregate(u, v, c)]
            /\ spc' = [spc EXCEPT ![r] = "query"]
            /\ UNCHANGED response
       \/ \E e \in {"err401", "err500"} :
            /\ response' = [response EXCEPT ![r] = e]
            /\ spc' = [spc EXCEPT ![r] = "failed"]
            /\ UNCHANGED insights
    /\ UNCHANGED <<existing_brand, brand, pending, after, faulted>>
    /\ UNCHANGED storeVars

\* lines 505-507
SaveQuery(r) ==
    /\ spc[r] = "query"
    /\ existing_brand' = [existing_brand EXCEPT ![r] = FirstRow(insights[r].website_url)]
    /\ after' = [after EXCEPT ![r] = Range(commits)]
    /\ spc' = [spc EXCEPT ![r] = "write"]
    /\ UNCHANGED <<insights, brand, pending, faulted, response>>
    /\ UNCHANGED storeVars

\* lines 509-525: the existing row is assigned to (flushed at commit) and
\* its child rows are deleted
SaveUpdate(r) ==
    /\ spc[r] = "write"
    /\ existing_brand[r] # 0
    /\ \A s \in Runs \ {r} : pending[s].deleted \cap ProductsOf(existing_brand[r]) = {}
    /\ pending' = [pending EXCEPT ![r].deleted = ProductsOf(existing_brand[r])]
    /\ brand' = [brand EXCEPT ![r] = existing_brand[r]]
    /\ spc' = [spc EXCEPT ![r] = "commit"]
    /\ UNCHANGED <<insights, existing_brand, after, faulted, response>>
    /\ UNCHANGED storeVars

\* lines 526-541: a new row is added and flushed; website_url is unique
\* (line 49), so a row another run committed meanwhile fails the INSERT
SaveInsert(r) ==
    /\ spc[r] = "write"
    /\ existing_brand[r] = 0
    /\ \A s \in Runs \ {r} :
          ~(pending[s].inserted /\ insights[s].website_url = insights[r].website_url)
    /\ IF FirstRow(insights[r].website_url) # 0
       THEN /\ Rollback(r)
            /\ UNCHANGED <<brand, nextId>>
       ELSE /\ pending' = [pending EXCEPT ![r].inserted = TRUE]
            /\ brand' = [brand EXCEPT ![r] = nextId]
            /\ nextId' = nextId + 1
            /\ spc' = [spc EXCEPT ![r] = "commit"]
            /\ UNCHANGED response
    /\ UNCHANGED <<insights, existing_brand, after, faulted>>
    /\ UNCHANGED <<rows, prodRows, nextPk, commits>>

\* lines 544-557: the product rows are added, the session is flushed and
\* committed
SaveCommit(r) ==
    /\ spc[r] = "commit"
    /\ rows' =
          IF pending[r].inserted
          THEN rows \cup {NewRow(brand[r], insights[r])}
          ELSE {IF row.id = brand[r] THEN UpdatedRow(row, insights[r]) ELSE row : row \in rows}
    /\ prodRows' =
          {p \in prodRows : p.pk \notin pending[r].deleted}
             \cup NewProducts(nextPk, brand[r], insights[r].product_catalog)
    /\ nextPk' = nextPk + Len(insights[r].product_catalog)
    /\ commits' = Append(commits, r)
    /\ pending' = [pending EXCEPT ![r] = NoPending]
    /\ response' = [response EXCEPT ![r] = "ok"]
    /\ spc' = [spc EXCEPT ![r] = "done"]
    /\ UNCHANGED <<insights, existing_brand, brand, after, faulted, nextId>>

\* lines 559-562: the database fails under a statement of the run
SaveFault(r) ==
    /\ spc[r] \in {"query", "write", "commit"}
    /\ faulted' = [faulted EXCEPT ![r] = TRUE]
    /\ Rollback(r)
    /\ UNCHANGED <<insights, existing_brand, brand, after>>
    /\ UNCHANGED storeVars

\* The product ids of a brand's child rows, in primary-key order
RECURSIVE ByPk(_)
ByPk(ps) ==
    IF ps = {} THEN <<>>
    ELSE LET p == CHOOSE x \in ps : \A y \in ps : x.pk <= y.pk
         IN  <<p.product_id>> \o ByPk(ps \ {p})

ChildProducts(brandId) == ByPk({p \in prodRows : p.brand_id = brandId})

\* The stored aggregate of url is exactly what run r fetched
StoredIs(url, r) ==
    /\ Cardinality({row \in rows : row.website_url = url}) = 1
    /\ \A row \in rows :
          row.website_url = url =>
             /\ row = NewRow(row.id, insights[r])
             /\ ChildProducts(row.id) = insights[r].product_catalog

\* C4: when a run fetched and saved after another run for the same URL
\* had committed, the store holds one row for the URL, with the later
\* run's facet fields, and its child rows are the later run's catalog.
C4_IdempotentUpsert ==
    \A r1, r2 \in Runs :
        ( /\ r1 # r2
          /\ response[r1] = "ok"
          /\ response[r2] = "ok"
          /\ insights[r1].website_url = insights[r2].website_url
          /\ r1 \in after[r2] )
        => StoredIs(insights[r2].website_url, r2)

C4_Witness ==
    /\ response[1] = "ok"
    /\ response[2] = "ok"
    /\ insights[1].website_url = insights[2].website_url
    /\ 1 \in after[2]
    /\ existing_brand[1] = 0
    /\ insights[1].product_catalog = <<"p2", "p3">>
    /\ insights[2].product_catalog = <<"p1">>
    /\ insights[1].brand_name # insights[2].brand_name
    /\ ChildProducts(brand[2]) = <<"p1">>

\* The run that committed last
LastCommitted == commits[Len(commits)]

\* C5: two concurrent saves for one URL, which the database does not fail
\* under, both complete without error, and the store then holds one row
\* for the URL whose fields and child rows are those of the run that
\* committed last.
C5_LastCommitWins ==
    ( /\ \A r \in Runs : spc[r] \in {"done", "failed"}
      /\ \A r \in Runs : insights[r] # NoInsights /\ ~faulted[r]
      /\ insights[1].website_url = insights[2].website_url )
    => /\ \A r \in Runs : response[r] = "ok"
       /\ Len(commits) = 2
       /\ StoredIs(insights[1].website_url, LastCommitted)

---------------------------------------------------------------------------
(* fetch_store_insights, src/main.py 436-488, called by the endpoint,      *)
(* lines 591-605, as run 1                                                 *)

\* the facets in the order lines 447-464 compute them
Facets ==
    <<"brand_name", "product_catalog", "hero_products", "privacy_policy",
      "return_refund_policy", "faqs", "social_handles", "contact_details",
      "brand_context", "important_links">>

FacetSet == Range(Facets)

\* the function each facet is computed by
Callee(f) ==
    CASE f = "brand_name" -> "extract_brand_name"
      [] f = "product_catalog" -> "fetch_product_catalog"
      [] f = "hero_products" -> "extract_hero_products"
      [] f = "privacy_policy" -> "fetch_policy_content"
      [] f = "return_refund_policy" -> "fetch_policy_content"
      [] f = "faqs" -> "extract_faqs"
      [] f = "social_handles" -> "extract_social_handles"
      [] f = "contact_details" -> "extract_contact_details"
      [] f = "brand_context" -> "extract_brand_context"
      [] f = "important_links" -> "extract_important_links"

\* bound: the number of facets whose extractor does not simply succeed
MaxDeviating == 2

Behaviours ==
    {b \in [FacetSet -> {"ok", "empty", "raise"}] :
        Cardinality({f \in FacetSet : b[f] # "ok"}) <= MaxDeviating}

\* Whether an exception inside the extractor of f leaves it: only
\* fetch_policy_content catches what its body raises (line 284)
Propagates(f) == f \notin {"privacy_policy", "return_refund_policy"}

\* The mutant of Handler: every exception is reported as an internal failure
HandlerAll500(exc) == "err500"

\* lines 484-488: an HTTPException is re-raised as it is (fetch_page raises
\* it with status 401, line 157), anything else becomes a 500
Handler(exc) == IF exc = "HTTPException401" THEN "err401" ELSE "err500"

OrchInit ==
    /\ opc = "homepage"
    /\ home \in {"ok", "fail"}
    /\ behaviour \in Behaviours
    /\ facet = [f \in FacetSet |-> "unset"]
    /\ calls = <<>>
    /\ outcome = "pending"

OrchIdle ==
    /\ opc = "idle"
    /\ home = "ok"
    /\ behaviour = [f \in FacetSet |-> "ok"]
    /\ facet = [f \in FacetSet |-> "unset"]
    /\ calls = <<>>
    /\ outcome = "pending"

\* An exception leaves fetch_store_insights through lines 484-488 and the
\* endpoint through line 600: save_brand_insights is not reached
OrchRaise(exc) ==
    /\ outcome' = Handler(exc)
    /\ opc' = "done"
    /\ response' = [response EXCEPT ![1] = Handler(exc)]
    /\ spc' = [spc EXCEPT ![1] = "failed"]
    /\ UNCHANGED insights

\* line 444: the homepage is fetched
OrchHomepage ==
    /\ opc = "homepage"
    /\ calls' = Append(calls, "fetch_page")
    /\ IF home = "ok"
       THEN /\ opc' = "facet1"
            /\ UNCHANGED <<outcome, response, spc, insights>>
       ELSE OrchRaise("HTTPException401")
    /\ UNCHANGED <<home, behaviour, facet>>
    /\ UNCHANGED <<existing_brand, brand, pending, after, faulted>>
    /\ UNCHANGED storeVars

Position(k) ==
    CASE k = 1 -> "facet1" [] k = 2 -> "facet2" [] k = 3 -> "facet3" [] k = 4 -> "facet4"
      [] k = 5 -> "facet5" [] k = 6 -> "facet6" [] k = 7 -> "facet7" [] k = 8 -> "facet8"
      [] k = 9 -> "facet9" [] k = 10 -> "facet10" [] k = 11 -> "competitors"

\* lines 447-464: the k-th facet is computed
OrchFacet(k) ==
    /\ opc = Position(k)
    /\ calls' = Append(calls, Callee(Facets[k]))
    /\ LET f == Facets[k]
       IN  IF behaviour[f] = "raise" /\ Propagates(f)
           THEN /\ OrchRaise("Exception")
                /\ UNCHANGED facet
           ELSE /\ facet' = [facet EXCEPT ![f] = IF behaviour[f] = "ok" THEN "value"
                                                 ELSE "default"]
                /\ opc' = Position(k + 1)
                /\ UNCHANGED <<outcome, response, spc, insights>>
    /\ UNCHANGED <<home, behaviour>>
    /\ UNCHANGED <<existing_brand, brand, pending, after, faulted>>
    /\ UNCHANGED storeVars

\* line 467: search_competitors returns []
OrchCompetitors ==
    /\ opc = "competitors"
    /\ calls' = Append(calls, "search_competitors")
    /\ opc' = "assemble"
    /\ UNCHANGED <<home, behaviour, facet, outcome>>
    /\ UNCHANGED runVars
    /\ UNCHANGED storeVars

\* lines 469-482: the aggregate is assembled and returned; line 603 hands
\* it to save_brand_insights
OrchReturn ==
    /\ opc = "assemble"
    /\ outcome' = "ok"
    /\ opc' = "done"
    /\ insights' = [insights EXCEPT ![1] =
          [website_url |-> "https://a.example",
           brand_name |-> facet["brand_name"],
           product_catalog |->
              IF facet["product_catalog"] = "value" THEN <<"p1", "p2">> ELSE <<>>,
           hero_products |-> facet["hero_products"],
           privacy_policy |-> facet["privacy_policy"],
           return_refund_policy |-> facet["return_refund_policy"],
           faqs |-> facet["faqs"],
           social_handles |-> facet["social_handles"],
           contact_details |-> facet["contact_details"],
           brand_context |-> facet["brand_context"],
           important_links |-> facet["important_links"]]]
    /\ spc' = [spc EXCEPT ![1] = "query"]
    /\ UNCHANGED <<home, behaviour, facet, calls>>
    /\ UNCHANGED <<existing_brand, brand, pending, after, faulted, response>>
    /\ UNCHANGED storeVars

\* the facets the isolation requirement names
IsolatedFacets == FacetSet \ {"brand_name"}

Raising == {f \in FacetSet : behaviour[f] = "raise"}

\* C2: with the homepage reachable and exactly one facet extractor
\* raising, fetch_store_insights returns an aggregate in which that facet
\* holds its default and every other facet the value its extractor
\* produced.
C2_FacetIsolation ==
    ( /\ opc = "done"
      /\ home = "ok"
      /\ Cardinality(Raising) = 1
      /\ Raising \subseteq IsolatedFacets )
    => /\ outcome = "ok"
       /\ \A f \in FacetSet :
             facet[f] = IF behaviour[f] = "ok" THEN "value" ELSE "default"

InitialStores ==
    { <<{}, {}>>,
      <<{NewRow(1, Aggregate("https://a.example", "old", <<>>))}, {}>>,
      <<{NewRow(1, Aggregate("https://a.example", "old", <<"p0">>))},
        NewProducts(1, 1, <<"p0">>)>> }

\* C3: when the homepage cannot be fetched the run ends with the 401
\* response, which a reachable homepage never gives; no catalog fetch,
\* policy fetch or facet extractor is called, and the store is not
\* written to.
C3_UnreachableSite ==
    /\ home = "fail" =>
          /\ \A i \in 1..Len(calls) : calls[i] = "fetch_page"
          /\ Len(calls) <= 1
          /\ \A f \in FacetSet : facet[f] = "unset"
          /\ outcome \in {"pending", "err401"}
          /\ opc = "done" => outcome = "err401" /\ response[1] = "err401"
          /\ spc[1] \in {"idle", "failed"}
          /\ pending[1] = NoPending
          /\ commits = <<>>
          /\ <<rows, prodRows>> \in InitialStores
    /\ home = "ok" => outcome # "err401" /\ response[1] # "err401"

C3_Witness ==
    /\ home = "fail"
    /\ opc = "done"
    /\ outcome = "err401"
    /\ response[1] = "err401"
    /\ calls = <<"fetch_page">>
    /\ rows # {}

AppIdle == EmptyStore /\ commits = <<>> /\ RunsInit /\ OrchIdle

---------------------------------------------------------------------------
(* extract_brand_context, src/main.py 369-391                              *)

\* about_selectors, lines 372-375
AboutSelectors ==
    <<".about", ".brand-story", ".our-story", ".company-info", "[class*=\"about\"]">>

\* line 381 and line 388: len(...) > 50
MinContextLen == 50

\* line 382: text[:1000]
ContextLimit == 1000

\* What select_one can return for an about selector: nothing, or an
\* element with its text
AboutSections ==
    { Missing,
      [id |-> "empty", len |-> 0],
      [id |-> "short", len |-> 50],
      [id |-> "about", len |-> 51],
      [id |-> "full", len |-> 1000],
      [id |-> "story", len |-> 1500] }

\* What line 385 can find: no description meta tag, or the tag with its
\* content attribute (a tag without the attribute reads as '', line 387)
MetaDescs ==
    { Missing,
      [id |-> "nocontent", len |-> 0],
      [id |-> "brief", len |-> 50],
      [id |-> "desc", len |-> 51],
      [id |-> "limit", len |-> 1000],
      [id |-> "essay", len |-> 1001] }

NoContext == [found |-> FALSE, text |-> NoText]

\* lines 379-381: the section exists and its text is long enough
AboutAccepted(t) == t # Missing /\ t.len > MinContextLen

\* line 382: return text[:1000]
AboutText(t) == Truncate(t, ContextLimit)

\* lines 386-388: the tag exists and its content is long enough
MetaAccepted(m) == m # Missing /\ m.len > MinContextLen

\* line 389: return content
MetaText(m) == m

ContextInit ==
    /\ xpc = "about"
    /\ about_sections = <<>>
    /\ meta_desc \in MetaDescs
    /\ context_result = NoContext

ContextIdle ==
    /\ xpc = "idle"
    /\ about_sections = <<>>
    /\ meta_desc = Missing
    /\ context_result = NoContext

\* lines 377-382: one pass of `for selector in about_selectors`
ContextAbout ==
    /\ xpc = "about"
    /\ Len(about_sections) < Len(AboutSelectors)
    /\ \E t \in AboutSections :
          /\ about_sections' = Append(about_sections, t)
          /\ IF AboutAccepted(t)
             THEN /\ context_result' = [found |-> TRUE, text |-> AboutText(t)]
                  /\ xpc' = "done"
             ELSE UNCHANGED <<xpc, context_result>>
    /\ UNCHANGED meta_desc

\* lines 384-391: no about section was returned; the meta description
ContextMeta ==
    /\ xpc = "about"
    /\ Len(about_sections) = Len(AboutSelectors)
    /\ context_result' =
          IF MetaAccepted(meta_desc)
          THEN [found |-> TRUE, text |-> MetaText(meta_desc)]
          ELSE NoContext
    /\ xpc' = "done"
    /\ UNCHANGED <<about_sections, meta_desc>>

\* C11: the brand context returned is absent, or a text of more than 50
\* and at most 1000 characters, whether it comes from an about section or
\* from the meta description.
C11_ContextLength ==
    xpc = "done" =>
        \/ ~context_result.found
        \/ /\ context_result.text.len > 50
           /\ context_result.text.len <= 1000

---------------------------------------------------------------------------
(* extract_important_links, src/main.py 393-418                            *)

\* The fields of ImportantLinks, lines 112-117, in the order in which
\* lines 407-416 test them
LinkCategories == <<"order_tracking", "contact_us", "blogs", "shipping_info", "size_guide">>

\* The terms of lines 407, 409, 411, 413 and 415
LinkTerms(c) ==
    IF c = "order_tracking" THEN
        { <<"t", "r", "a", "c", "k">>,
          <<"o", "r", "d", "e", "r">>,
          <<"t", "r", "a", "c", "k", "i", "n", "g">> }
    ELSE IF c = "contact_us" THEN
        { <<"c", "o", "n", "t", "a", "c", "t">>,
          <<"c", "o", "n", "t", "a", "c", "t", " ", "u", "s">> }
    ELSE IF c = "blogs" THEN
        { <<"b", "l", "o", "g">>,
          <<"n", "e", "w", "s">>,
          <<"a", "r", "t", "i", "c", "l", "e", "s">> }
    ELSE IF c = "shipping_info" THEN
        { <<"s", "h", "i", "p", "p", "i", "n", "g">>,
          <<"d", "e", "l", "i", "v", "e", "r", "y">> }
    ELSE
        { <<"s", "i", "z", "e">>,
          <<"g", "u", "i", "d", "e">>,
          <<"s", "i", "z", "i", "n", "g">> }

\* any(term in text for term in [...])
TextMatches(text, c) == \E term \in LinkTerms(c) : Contains(text, term)

\* line 401: link.get_text().lower().strip()
LinkText(a) == Strip(ToLower(a.text))

\* lines 407-416: the branch of the if/elif chain that is taken, 0 for none
LinkBranch(text) ==
    LET hits == {k \in 1..Len(LinkCategories) : TextMatches(text, LinkCategories[k])}
    IN  IF hits = {} THEN 0 ELSE CHOOSE k \in hits : \A j \in hits : k <= j

\* base_url, the website url fetch_store_insights passes at line 464
BaseUrl == <<"h", "t", "t", "p", "s", ":", "/", "/", "s", ".", "c", "o", "/">>

\* href.startswith('http')
HTTP == <<"h", "t", "t", "p">>

StartsWith(s, prefix) == OccursAt(prefix, s, 0)

\* urljoin(base, ref) for a reference that is an absolute path: the scheme
\* and the host of the base, followed by the reference
UrlJoin(base, ref) ==
    LET sep == <<":", "/", "/">>
        start == Find(base, sep) + Len(sep)
        host == SplitFirst(Drop(base, start), <<"/">>)
    IN  Take(base, start + Len(host)) \o ref

\* lines 402-405
ResolvedHref(a) == IF StartsWith(a.href, HTTP) THEN a.href ELSE UrlJoin(BaseUrl, a.href)

\* a field that is None
NoLink == <<>>

NoLinks == [c \in Range(LinkCategories) |-> NoLink]

\* bound: the largest number of anchors with an href on the homepage
MaxLinks == 3

\* The anchors soup.find_all('a', href=True) can return
LinkAnchors ==
    { [text |-> <<" ", "S", "h", "i", "p", "p", "i", "n", "g", "\n">>, href |-> <<"/", "s", "1">>],
      [text |-> <<"S", "h", "i", "p", "p", "i", "n", "g">>, href |-> <<"h", "t", "t", "p", "s", ":", "/", "/", "e", ".", "c", "o", "/", "s", "2">>],
      [text |-> <<"S", "h", "i", "p", "p", "i", "n", "g", " ", "o", "r", "d", "e", "r">>, href |-> <<"/", "s", "o">>],
      [text |-> <<"S", "i", "z", "e", " ", "g", "u", "i", "d", "e">>, href |-> <<"/", "s", "g">>],
      [text |-> <<"C", "o", "n", "t", "a", "c", "t", " ", "u", "s">>, href |-> <<"/", "c">>],
      [text |-> <<"B", "l", "o", "g">>, href |-> <<"h", "t", "t", "p", ":", "/", "/", "b", ".", "c", "o", "/">>],
      [text |-> <<"S", "i", "z", "i", "n", "g", " ", "n", "e", "w", "s">>, href |-> <<"/", "n">>],
      [text |-> <<"H", "o", "m", "e">>, href |-> <<"/">>] }

LinksInit ==
    /\ lpc = "loop"
    /\ links = <<>>
    /\ important_links = NoLinks

LinksIdle ==
    /\ lpc = "idle"
    /\ links = <<>>
    /\ important_links = NoLinks

\* lines 400-416: one pass of `for link in links`
LinksAnchor ==
    /\ lpc = "loop"
    /\ Len(links) < MaxLinks
    /\ \E a \in LinkAnchors :
          /\ links' = Append(links, a)
          /\ LET k == LinkBranch(LinkText(a))
             IN  important_links' =
                    IF k = 0 THEN important_links
                    ELSE [important_links EXCEPT ![LinkCategories[k]] = ResolvedHref(a)]
    /\ UNCHANGED lpc

\* line 418: the anchors are exhausted
LinksReturn ==
    /\ lpc = "loop"
    /\ lpc' = "done"
    /\ UNCHANGED <<links, important_links>>

\* The anchors seen whose text matches the keyword set of category c
MatchingLinks(c) == {i \in 1..Len(links) : TextMatches(Strip(ToLower(links[i].text)), c)}

\* C12: every category whose keyword set an anchor's lower-cased trimmed
\* text matches is populated by that anchor, so that each category ends
\* with the resolved href of the last anchor in document order matching
\* it, and is absent when no anchor matches it.
C12_ImportantLinks ==
    lpc = "done" =>
        \A c \in Range(LinkCategories) :
            important_links[c] =
                IF MatchingLinks(c) = {} THEN NoLink
                ELSE LET last == CHOOSE i \in MatchingLinks(c) :
                                     \A j \in MatchingLinks(c) : j <= i
                     IN  ResolvedHref(links[last])

---------------------------------------------------------------------------
(* extract_social_handles, src/main.py 327-349                             *)

\* The fields of SocialHandles, lines 100-106, in the order in which lines
\* 336-347 test them
Platforms == <<"instagram", "facebook", "twitter", "tiktok", "youtube", "linkedin">>

DOTCOM == <<".", "c", "o", "m">>

\* 'x.com' of line 340
XCOM == <<"x">> \o DOTCOM

\* The platform names as text
PlatformName(p) ==
    IF p = "instagram" THEN <<"i", "n", "s", "t", "a", "g", "r", "a", "m">>
    ELSE IF p = "facebook" THEN <<"f", "a", "c", "e", "b", "o", "o", "k">>
    ELSE IF p = "twitter" THEN <<"t", "w", "i", "t", "t", "e", "r">>
    ELSE IF p = "tiktok" THEN <<"t", "i", "k", "t", "o", "k">>
    ELSE IF p = "youtube" THEN <<"y", "o", "u", "t", "u", "b", "e">>
    ELSE <<"l", "i", "n", "k", "e", "d", "i", "n">>

PlatformDomain(p) == PlatformName(p) \o DOTCOM

\* line 332: the href matches (instagram|facebook|twitter|tiktok|youtube|linkedin)\.com
SocialLink(href) == \E p \in Range(Platforms) : Contains(href, PlatformDomain(p))

\* the test of each branch of lines 336-347, on the lower-cased href
BranchTest(href, p) ==
    \/ Contains(href, PlatformDomain(p))
    \/ p = "twitter" /\ Contains(href, XCOM)

\* lines 336-347: the branch of the if/elif chain that is taken, 0 for none
SocialBranch(href) ==
    LET hits == {k \in 1..Len(Platforms) : BranchTest(href, Platforms[k])}
    IN  IF hits = {} THEN 0 ELSE CHOOSE k \in hits : \A j \in hits : k <= j

\* a field that is None
NoHandle == <<>>

NoHandles == [p \in Range(Platforms) |-> NoHandle]

\* bound: the largest number of anchors on the homepage
MaxAnchors == 3

\* The hrefs the anchors of the homepage can have
SocialHrefs ==
    { <<"h", "t", "t", "p", "s", ":", "/", "/", "i", "n", "s", "t", "a", "g", "r", "a", "m", ".", "c", "o", "m", "/", "b">>,
      <<"h", "t", "t", "p", ":", "/", "/", "i", "n", "s", "t", "a", "g", "r", "a", "m", ".", "c", "o", "m", "/", "c">>,
      <<"h", "t", "t", "p", "s", ":", "/", "/", "f", "a", "c", "e", "b", "o", "o", "k", ".", "c", "o", "m", "/", "B">>,
      <<"h", "t", "t", "p", "s", ":", "/", "/", "t", "w", "i", "t", "t", "e", "r", ".", "c", "o", "m", "/", "b">>,
      <<"h", "t", "t", "p", "s", ":", "/", "/", "x", ".", "c", "o", "m", "/", "b">>,
      <<"h", "t", "t", "p", "s", ":", "/", "/", "t", "i", "k", "t", "o", "k", ".", "c", "o", "m", "/", "b">>,
      <<"h", "t", "t", "p", "s", ":", "/", "/", "y", "o", "u", "t", "u", "b", "e", ".", "c", "o", "m", "/", "b">>,
      <<"h", "t", "t", "p", "s", ":", "/", "/", "l", "i", "n", "k", "e", "d", "i", "n", ".", "c", "o", "m", "/", "b">>,
      <<"h", "t", "t", "p", "s", ":", "/", "/", "s", ".", "c", "o", "/", "a">> }

SocialInit ==
    /\ shpc = "loop"
    /\ page_anchors = <<>>
    /\ social_handles = NoHandles

SocialIdle ==
    /\ shpc = "idle"
    /\ page_anchors = <<>>
    /\ social_handles = NoHandles

\* The next anchor of the document: find_all of line 332 keeps it or not,
\* and lines 334-347 handle the ones it keeps
SocialAnchor ==
    /\ shpc = "loop"
    /\ Len(page_anchors) < MaxAnchors
    /\ \E h \in SocialHrefs :
          /\ page_anchors' = Append(page_anchors, h)
          /\ LET href == ToLower(h)
                 k == SocialBranch(href)
             IN  social_handles' =
                    IF SocialLink(h) /\ k # 0
                    THEN [social_handles EXCEPT ![Platforms[k]] = href]
                    ELSE social_handles
    /\ UNCHANGED shpc

\* line 349: the anchors are exhausted
SocialReturn ==
    /\ shpc = "loop"
    /\ shpc' = "done"
    /\ UNCHANGED <<page_anchors, social_handles>>

\* The anchors whose href contains the domain of platform p, x.com counted
\* as twitter
PlatformAnchors(p) ==
    {i \in 1..Len(page_anchors) :
        \/ Contains(page_anchors[i], PlatformDomain(p))
        \/ p = "twitter" /\ Contains(page_anchors[i], <<"x", ".", "c", "o", "m">>)}

\* C13: every anchor whose href contains one of the six platform domains,
\* x.com counted as twitter, is considered: each platform field ends with
\* the lower-cased href of the last such anchor in document order and is
\* absent only when there is none, so an anchor whose only platform domain
\* is x.com sets the twitter field.
C13_SocialHandles ==
    shpc = "done" =>
        \A p \in Range(Platforms) :
            social_handles[p] =
                IF PlatformAnchors(p) = {} THEN NoHandle
                ELSE LET last == CHOOSE i \in PlatformAnchors(p) :
                                     \A j \in PlatformAnchors(p) : j <= i
                     IN  ToLower(page_anchors[last])

DocIdle == ContextIdle /\ LinksIdle /\ SocialIdle

---------------------------------------------------------------------------
(* Specifications: one per component, the other components idle            *)

CatalogNext == CatalogPage /\ UNCHANGED <<heroVars, brandVars, faqVars, polVars, appVars, docVars>>

InitCatalog == CatalogInit /\ HeroIdle /\ BrandIdle /\ FaqIdle /\ PolicyIdle /\ AppIdle /\ DocIdle

SpecCatalog == InitCatalog /\ [][CatalogNext]_vars

HeroNext ==
    \/ HeroLinks /\ UNCHANGED <<catVars, brandVars, faqVars, polVars, appVars, docVars>>
    \/ HeroProducts /\ UNCHANGED <<catVars, brandVars, faqVars, polVars, appVars, docVars>>

InitHero == HeroInit /\ CatalogIdle /\ BrandIdle /\ FaqIdle /\ PolicyIdle /\ AppIdle /\ DocIdle

SpecHero == InitHero /\ [][HeroNext]_vars

BrandNext ==
    \/ BrandMeta /\ UNCHANGED <<catVars, heroVars, faqVars, polVars, appVars, docVars>>
    \/ BrandTitle /\ UNCHANGED <<catVars, heroVars, faqVars, polVars, appVars, docVars>>
    \/ BrandLogo /\ UNCHANGED <<catVars, heroVars, faqVars, polVars, appVars, docVars>>
    \/ BrandDomain /\ UNCHANGED <<catVars, heroVars, faqVars, polVars, appVars, docVars>>
    \/ BrandReturn /\ UNCHANGED <<catVars, heroVars, faqVars, polVars, appVars, docVars>>

InitBrand == BrandInit /\ CatalogIdle /\ HeroIdle /\ FaqIdle /\ PolicyIdle /\ AppIdle /\ DocIdle

SpecBrand == InitBrand /\ [][BrandNext]_vars

FaqNext ==
    \/ FaqElement /\ UNCHANGED <<catVars, heroVars, brandVars, polVars, appVars, docVars>>
    \/ FaqNextSelector /\ UNCHANGED <<catVars, heroVars, brandVars, polVars, appVars, docVars>>
    \/ FaqFallback /\ UNCHANGED <<catVars, heroVars, brandVars, polVars, appVars, docVars>>
    \/ FaqMatch /\ UNCHANGED <<catVars, heroVars, brandVars, polVars, appVars, docVars>>
    \/ FaqMatchesDone /\ UNCHANGED <<catVars, heroVars, brandVars, polVars, appVars, docVars>>
    \/ FaqReturn /\ UNCHANGED <<catVars, heroVars, brandVars, polVars, appVars, docVars>>

InitFaq == FaqInit /\ CatalogIdle /\ HeroIdle /\ BrandIdle /\ PolicyIdle /\ AppIdle /\ DocIdle

SpecFaq == InitFaq /\ [][FaqNext]_vars

PolicyNext ==
    \/ PolicyPath /\ UNCHANGED <<catVars, heroVars, brandVars, faqVars, appVars, docVars>>
    \/ PolicyAbsent /\ UNCHANGED <<catVars, heroVars, brandVars, faqVars, appVars, docVars>>

InitPolicy == PolicyInit /\ CatalogIdle /\ HeroIdle /\ BrandIdle /\ FaqIdle /\ AppIdle /\ DocIdle

SpecPolicy == InitPolicy /\ [][PolicyNext]_vars

FunIdle == CatalogIdle /\ HeroIdle /\ BrandIdle /\ FaqIdle /\ PolicyIdle /\ DocIdle

StoreNext ==
    \/ \E r \in Runs : EndpointFetch(r) /\ UNCHANGED <<funVars, orchVars>>
    \/ \E r \in Runs : SaveQuery(r) /\ UNCHANGED <<funVars, orchVars>>
    \/ \E r \in Runs : SaveUpdate(r) /\ UNCHANGED <<funVars, orchVars>>
    \/ \E r \in Runs : SaveInsert(r) /\ UNCHANGED <<funVars, orchVars>>
    \/ \E r \in Runs : SaveCommit(r) /\ UNCHANGED <<funVars, orchVars>>
    \/ \E r \in Runs : SaveFault(r) /\ UNCHANGED <<funVars, orchVars>>

InitStore == StoreInit /\ RunsInit /\ OrchIdle /\ FunIdle

SpecStore == InitStore /\ [][StoreNext]_vars

OrchNext ==
    \/ OrchHomepage /\ UNCHANGED funVars
    \/ \E k \in 1..Len(Facets) : OrchFacet(k) /\ UNCHANGED funVars
    \/ OrchCompetitors /\ UNCHANGED funVars
    \/ OrchReturn /\ UNCHANGED funVars
    \/ SaveQuery(1) /\ UNCHANGED <<funVars, orchVars>>
    \/ SaveUpdate(1) /\ UNCHANGED <<funVars, orchVars>>
    \/ SaveInsert(1) /\ UNCHANGED <<funVars, orchVars>>
    \/ SaveCommit(1) /\ UNCHANGED <<funVars, orchVars>>
    \/ SaveFault(1) /\ UNCHANGED <<funVars, orchVars>>

InitOrch == StoreInit /\ RunsInit /\ OrchInit /\ FunIdle

SpecOrch == InitOrch /\ [][OrchNext]_vars

ContextNext ==
    \/ ContextAbout /\ UNCHANGED <<catVars, heroVars, brandVars, faqVars, polVars, appVars, linkVars, socVars>>
    \/ ContextMeta /\ UNCHANGED <<catVars, heroVars, brandVars, faqVars, polVars, appVars, linkVars, socVars>>

InitContext ==
    /\ ContextInit /\ LinksIdle /\ SocialIdle
    /\ CatalogIdle /\ HeroIdle /\ BrandIdle /\ FaqIdle /\ PolicyIdle /\ AppIdle

SpecContext == InitContext /\ [][ContextNext]_vars

LinksNext ==
    \/ LinksAnchor /\ UNCHANGED <<catVars, heroVars, brandVars, faqVars, polVars, appVars, ctxVars, socVars>>
    \/ LinksReturn /\ UNCHANGED <<catVars, heroVars, brandVars, faqVars, polVars, appVars, ctxVars, socVars>>

InitLinks ==
    /\ LinksInit /\ ContextIdle /\ SocialIdle
    /\ CatalogIdle /\ HeroIdle /\ BrandIdle /\ FaqIdle /\ PolicyIdle /\ AppIdle

SpecLinks == InitLinks /\ [][LinksNext]_vars

SocialNext ==
    \/ SocialAnchor /\ UNCHANGED <<catVars, heroVars, brandVars, faqVars, polVars, appVars, ctxVars, linkVars>>
    \/ SocialReturn /\ UNCHANGED <<catVars, heroVars, brandVars, faqVars, polVars, appVars, ctxVars, linkVars>>

InitSocial ==
    /\ SocialInit /\ ContextIdle /\ LinksIdle
    /\ CatalogIdle /\ HeroIdle /\ BrandIdle /\ FaqIdle /\ PolicyIdle /\ AppIdle

SpecSocial == InitSocial /\ [][SocialNext]_vars

=============================================================================
